---- MODULE Spec2Model ----
(***************************************************************************)
(* Model of the mandoc.db decoder of ryanv404/mandoc_db_search.            *)
(*                                                                         *)
(* The decoder is a family of pure functions of (buffer, offset).  Each    *)
(* function is an operator translated from its Rust source; an outcome is  *)
(* one of                                                                  *)
(*   Ok(v)     the function returned Ok(v),                                *)
(*   Err(m)    the function returned Err with message m,                   *)
(*   Panic(m)  the function aborted (assert!, slice or index out of        *)
(*             range, unreachable!()); `?` never catches this.             *)
(* Offsets are 0-based as in the source; At(b, i) is bytes[i].  usize is   *)
(* taken to be 64 bits wide, so no offset computed from a u32 wraps.       *)
(* A specification draws the buffer in Init and its actions apply one      *)
(* decoder to it, recording the call and its outcome.  SpecStep runs the   *)
(* decoders one loop iteration at a time; `ctl` is its control state.      *)
(***************************************************************************)
EXTENDS Integers, Sequences, FiniteSets, TLC

VARIABLES bytes, op, arg, result, ctl

vars == <<bytes, op, arg, result, ctl>>

(***************************************************************************)
(* Outcomes                                                                *)
(***************************************************************************)
Ok(v) == [tag |-> "Ok", val |-> v, msg |-> ""]
Err(m) == [tag |-> "Err", val |-> <<>>, msg |-> m]
Panic(m) == [tag |-> "Panic", val |-> <<>>, msg |-> m]
NoResult == [tag |-> "None", val |-> <<>>, msg |-> ""]

IsOk(r) == r.tag = "Ok"
IsErr(r) == r.tag = "Err"
IsPanic(r) == r.tag = "Panic"

\* A behaviour draws a buffer and applies one decoder call to it: the decoders
\* are pure functions of (bytes, offset), so a second call adds no state.
Fresh == op = "none"

\* The control state of a decoder that has not been started: the loop that is
\* running (pc), where a finished list returns to (ret), and the loop variables
\* of the source.
Idle ==
    [pc |-> "idle", ret |-> "", kind |-> "", count |-> 0, i |-> 0, page_idx |-> 0,
     tstart |-> 0, tcount |-> 0, j |-> 0, pages_list |-> 0, p |-> 0, pos |-> 0]

\* bytes[i], 0-based.
At(b, i) == b[i + 1]

\* bytes[from..to) as a sequence, 0-based, to exclusive.
Slice(b, from, to) == SubSeq(b, from + 1, to)

(***************************************************************************)
(* Messages of the source                                                  *)
(***************************************************************************)
MsgAssertNum == "assertion failed: idx + 3 < bytes.len()"
MsgAssertPage == "assertion failed: start + 19 < bytes.len()"
MsgSliceStart == "range start index out of range for slice"
MsgIndex == "index out of bounds"
MsgUnreachable == "internal error: entered unreachable code"
MsgListNul == "Encountered an unexpected NUL byte."
MsgListUtf8 == "str::from_utf8 failed while parsing a list."
MsgEmptyString == "Parsed an unexpected empty string."
MsgUtf8Error == "Utf8Error"
MsgNameSource == "Name source parsing failed."
MsgNamesList == "Names list parsing failed."
MsgDesc == "Description string parsing failed."
MsgPages == "Page entry parsing failed."
MsgMacros == "Macros parsing failed."
MsgMacroValues == "Macro values parsing failed."
MsgMacroValue == "Macro value parsing failed."
MsgMagic == "Invalid file format."
MsgVersion == "Invalid version number."

(***************************************************************************)
(* std: u32::from_be_bytes, str::from_utf8, slice::split_inclusive         *)
(***************************************************************************)
\* u32::from_be_bytes(bytes[idx..=idx+3]) widened to usize.
from_be_bytes(b, idx) ==
    ((At(b, idx) * 256 + At(b, idx + 1)) * 256 + At(b, idx + 2)) * 256 + At(b, idx + 3)

\* The big-endian bytes of n, the inverse of from_be_bytes (used to lay out buffers).
to_be_bytes(n) ==
    <<n \div 16777216, (n \div 65536) % 256, (n \div 256) % 256, n % 256>>

\* str::from_utf8(s).is_ok().  One-byte (ASCII) and two-byte forms are decoded
\* exactly.  The three- and four-byte forms need a lead byte 0xE0..0xF4 followed
\* by continuation bytes 0x80..0xBF; the buffers of this model hold no
\* continuation byte, so every lead byte >= 0xE0 is rejected.
RECURSIVE from_utf8_ok(_, _)
from_utf8_ok(s, i) ==
    IF i > Len(s) THEN TRUE
    ELSE IF s[i] < 128 THEN from_utf8_ok(s, i + 1)
    ELSE IF s[i] >= 194 /\ s[i] <= 223
         THEN /\ i + 1 <= Len(s)
              /\ s[i + 1] >= 128
              /\ s[i + 1] <= 191
              /\ from_utf8_ok(s, i + 2)
    ELSE FALSE

\* The index of the first NUL at or after i, or bytes.len() when there is none.
RECURSIVE find_nul(_, _)
find_nul(b, i) ==
    IF i >= Len(b) \/ At(b, i) = 0 THEN i ELSE find_nul(b, i + 1)

\* The end (exclusive) of the fragment split_inclusive(|b| *b == 0) yields next
\* from position i < bytes.len(): the fragment keeps its NUL; the last fragment
\* of a buffer that does not end in NUL has none.
frag_end(b, i) ==
    LET p == find_nul(b, i) IN IF p < Len(b) THEN p + 1 ELSE Len(b)

(***************************************************************************)
(* utils.rs / main.rs: parse_num                                           *)
(***************************************************************************)
parse_num(b, idx) ==
    IF ~(idx + 3 < Len(b)) THEN Panic(MsgAssertNum)
    ELSE Ok(from_be_bytes(b, idx))

(***************************************************************************)
(* A `let x = f(..)?;` of the source is written as a step operator that    *)
(* takes the outcome of f as its last parameter: it returns a failure      *)
(* unchanged and otherwise goes on with the value.                         *)
(***************************************************************************)

(***************************************************************************)
(* utils.rs: parse_list; main.rs: parse_strings_list.  The two differ only *)
(* in their error values.  The loop consumes the fragments lazily: i is    *)
(* the position of the next fragment, list the strings pushed so far.      *)
(***************************************************************************)
\* The arm `1 if item_bytes[0] == 0 => break`: a fragment that is a lone NUL.
is_terminator_never(item_bytes) == FALSE

is_terminator(item_bytes) == Len(item_bytes) = 1 /\ item_bytes[1] = 0

RECURSIVE list_loop(_, _, _, _, _)

\* The arm `len =>`: s is item_bytes[..(len - 1)].
list_push(b, e, list, s, msgEmpty, msgUtf8) ==
    IF ~from_utf8_ok(s, 1) THEN Err(msgUtf8)
    ELSE list_loop(b, e, Append(list, s), msgEmpty, msgUtf8)

\* match item_bytes.len()
list_item(b, e, list, item_bytes, msgEmpty, msgUtf8) ==
    IF Len(item_bytes) = 0 THEN Err(msgEmpty)
    ELSE IF is_terminator(item_bytes) THEN Ok(list)
    ELSE list_push(b, e, list, SubSeq(item_bytes, 1, Len(item_bytes) - 1),
                   msgEmpty, msgUtf8)

list_loop(b, i, list, msgEmpty, msgUtf8) ==
    IF i >= Len(b) THEN Ok(list)
    ELSE list_item(b, frag_end(b, i), list, Slice(b, i, frag_end(b, i)),
                   msgEmpty, msgUtf8)

parse_list(b, idx) ==
    IF idx > Len(b) THEN Panic(MsgSliceStart)
    ELSE list_loop(b, idx, <<>>, MsgListNul, MsgListUtf8)

parse_strings_list(b, start) ==
    IF start > Len(b) THEN Panic(MsgSliceStart)
    ELSE list_loop(b, start, <<>>, MsgEmptyString, MsgUtf8Error)

(***************************************************************************)
(* pages.rs: Name::parse_names; main.rs, page.rs: Name::parse_names_list   *)
(* (the same code; the field `value` is called `str` there).               *)
(***************************************************************************)
Name(value, source) == [value |-> value, source |-> source]

\* matches!(item_bytes[0], 1..=31)
source_in_range_no_upper(byte) == byte >= 1

source_in_range(byte) == byte >= 1 /\ byte <= 31

RECURSIVE names_loop(_, _, _)

\* The arm `len =>`: body is item_bytes[..(len - 1)], split_first() gives
\* (src, name_bytes).
names_push(b, e, names, body) ==
    IF Len(body) = 0 THEN Err(MsgNamesList)
    ELSE IF ~from_utf8_ok(Tail(body), 1) THEN Err(MsgUtf8Error)
    ELSE names_loop(b, e, Append(names, Name(Tail(body), Head(body))))

\* match item_bytes.len()
names_item(b, e, names, item_bytes) ==
    IF Len(item_bytes) = 0 THEN Err(MsgEmptyString)
    ELSE IF Len(item_bytes) = 1 /\ item_bytes[1] = 0 THEN Ok(names)
    ELSE IF ~source_in_range(item_bytes[1]) THEN Err(MsgNameSource)
    ELSE names_push(b, e, names, SubSeq(item_bytes, 1, Len(item_bytes) - 1))

names_loop(b, i, names) ==
    IF i >= Len(b) THEN Ok(names)
    ELSE names_item(b, frag_end(b, i), names, Slice(b, i, frag_end(b, i)))

parse_names(b, start) ==
    IF start > Len(b) THEN Panic(MsgSliceStart)
    ELSE names_loop(b, start, <<>>)

(***************************************************************************)
(* pages.rs: PageFormat::from, Page::parse, Pages::parse                   *)
(***************************************************************************)
None == [some |-> FALSE, list |-> <<>>]
Some(l) == [some |-> TRUE, list |-> l]

PageFormat_from(byte) ==
    IF byte = 1 THEN Ok("MdocMan")
    ELSE IF byte = 2 THEN Ok("Preformatted")
    ELSE Panic(MsgUnreachable)

\* bytes[start..].split(|b| *b == 0).next().and_then(from_utf8(..).ok()).ok_or(msg)
first_string(b, start, msg) ==
    IF start > Len(b) THEN Panic(MsgSliceStart)
    ELSE LET s == Slice(b, start, find_nul(b, start))
         IN IF from_utf8_ok(s, 1) THEN Ok(s) ELSE Err(msg)

\* bytes[idx] with the bounds check of the index operator.
index(b, idx) == IF idx < Len(b) THEN Ok(At(b, idx)) ELSE Panic(MsgIndex)

\* Page::parse exists in pages.rs, main.rs and page.rs; the copies differ only in
\* the string-list decoder they call: parse_list in pages.rs, parse_strings_list
\* in main.rs and page.rs.  `file` names the copy.
string_list(file, b, idx) ==
    IF file = "pages.rs" THEN parse_list(b, idx) ELSE parse_strings_list(b, idx)

\* The five offsets of the record at `start`.
page_offsets(b, start) ==
    [names |-> parse_num(b, start).val,
     sects |-> parse_num(b, start + 4).val,
     archs |-> parse_num(b, start + 8).val,
     desc |-> parse_num(b, start + 12).val,
     files |-> parse_num(b, start + 16).val]

\* The fields of a Page before they are decoded.
NoPage ==
    [names |-> <<>>, sects |-> <<>>, archs |-> None, desc |-> <<>>, files |-> <<>>,
     format |-> ""]

\* let format = PageFormat::from(bytes[files_start]); Ok(Self { .. })
page_parse_format(pg, format) ==
    IF ~IsOk(format) THEN format ELSE Ok([pg EXCEPT !.format = format.val])

page_parse_tag(pg, tag) ==
    IF ~IsOk(tag) THEN tag ELSE page_parse_format(pg, PageFormat_from(tag.val))

\* let files = parse_list(bytes, files_start + 1)?;
page_parse_files(b, o, pg, files) ==
    IF ~IsOk(files) THEN files
    ELSE page_parse_tag([pg EXCEPT !.files = files.val], index(b, o.files))

\* let desc = bytes[desc_start..]...ok_or("Description string parsing failed.")?;
page_parse_desc(file, b, o, pg, desc) ==
    IF ~IsOk(desc) THEN desc
    ELSE page_parse_files(b, o, [pg EXCEPT !.desc = desc.val],
                          string_list(file, b, o.files + 1))

\* Some(parse_list(bytes, archs_start)?)
option_some(l) == IF IsOk(l) THEN Ok(Some(l.val)) ELSE l

option_some_nonempty(l) ==
    IF ~IsOk(l) THEN l ELSE IF l.val = <<>> THEN Ok(None) ELSE Ok(Some(l.val))

page_parse_archs_empty_is_none(file, b, archs_start) ==
    IF archs_start # 0 THEN option_some_nonempty(string_list(file, b, archs_start))
    ELSE Ok(None)

\* let archs = if archs_start != 0 { Some(parse_list(..)?) } else { None };
page_parse_archs(file, b, archs_start) ==
    IF archs_start # 0 THEN option_some(string_list(file, b, archs_start))
    ELSE Ok(None)

page_parse_archs_done(file, b, o, pg, archs) ==
    IF ~IsOk(archs) THEN archs
    ELSE page_parse_desc(file, b, o, [pg EXCEPT !.archs = archs.val],
                         first_string(b, o.desc, MsgDesc))

\* let sects = parse_list(bytes, sects_start)?;
page_parse_sects(file, b, o, pg, sects) ==
    IF ~IsOk(sects) THEN sects
    ELSE page_parse_archs_done(file, b, o, [pg EXCEPT !.sects = sects.val],
                               page_parse_archs(file, b, o.archs))

\* let names = Name::parse_names(bytes, names_start)?;
page_parse_names(file, b, o, names) ==
    IF ~IsOk(names) THEN names
    ELSE page_parse_sects(file, b, o, [NoPage EXCEPT !.names = names.val],
                          string_list(file, b, o.sects))

page_parse_with(file, b, start) ==
    IF ~(start + 19 < Len(b)) THEN Panic(MsgAssertPage)
    ELSE page_parse_names(file, b, page_offsets(b, start),
                          parse_names(b, page_offsets(b, start).names))

Page_parse(b, start) == page_parse_with("pages.rs", b, start)

main_Page_parse(b, start) == page_parse_with("main.rs", b, start)

\* The page loop shared by Pages::parse and main.rs's Database::parse:
\* for page_idx in 0..count { table.push(Page::parse(bytes, 20 + 20 * page_idx)?) }
page_size == 20
table_idx == 20

RECURSIVE pages_loop(_, _, _, _, _)

pages_push(file, b, page_idx, count, table, page) ==
    IF ~IsOk(page) THEN page
    ELSE pages_loop(file, b, page_idx + 1, count, Append(table, page.val))

pages_loop(file, b, page_idx, count, table) ==
    IF page_idx >= count THEN Ok(table)
    ELSE pages_push(file, b, page_idx, count, table,
                    page_parse_with(file, b, table_idx + page_size * page_idx))

\* if table.len() != count { return Err(..) }  Ok(Self { count, table })
pages_check(count, table) ==
    IF ~IsOk(table) THEN table
    ELSE IF Len(table.val) # count THEN Err(MsgPages)
    ELSE Ok([count |-> count, table |-> table.val])

Pages_parse(b) ==
    LET count == parse_num(b, 16)
    IN IF ~IsOk(count) THEN count
       ELSE pages_check(count.val, pages_loop("pages.rs", b, 0, count.val, <<>>))

(***************************************************************************)
(* macros.rs: Value::parse, Table::parse, Macros::parse                    *)
(***************************************************************************)
\* for p in 0..=last_page: the walk reads at most last_page + 1 entries.
last_page_one_more == 20 + 1

last_page == 20

names_list_idx_files(page_idx) == page_idx + 16

\* parse_num(bytes, page_idx): the entry is read as the offset of a u32 that
\* holds the offset of a name list, the first field of a page record.
names_list_idx(page_idx) == page_idx

RECURSIVE value_loop(_, _, _, _)

\* let names_vec = Name::parse_names(bytes, names_list)?; page_names.push(names_vec);
value_push(b, pages_list, p, page_names, names_vec) ==
    IF ~IsOk(names_vec) THEN names_vec
    ELSE value_loop(b, pages_list, p + 1, Append(page_names, names_vec.val))

value_loop(b, pages_list, p, page_names) ==
    IF p > last_page THEN Ok(page_names)
    ELSE LET page_idx == parse_num(b, pages_list + (p * 4))
         IN IF ~IsOk(page_idx) THEN page_idx
            ELSE IF page_idx.val = 0 THEN Ok(page_names)
            ELSE LET names_list == parse_num(b, names_list_idx(page_idx.val))
                 IN IF ~IsOk(names_list) THEN names_list
                    ELSE value_push(b, pages_list, p, page_names,
                                    parse_names(b, names_list.val))

\* Ok(Self { str, page_names })
value_done(str, page_names) ==
    IF ~IsOk(page_names) THEN page_names
    ELSE Ok([str |-> str, page_names |-> page_names.val])

\* let pages_list = parse_num(bytes, pages_list_idx)?; and the walk
value_pages(b, pages_list_idx, str) ==
    IF ~IsOk(str) THEN str
    ELSE LET pages_list == parse_num(b, pages_list_idx)
         IN IF ~IsOk(pages_list) THEN pages_list
            ELSE value_done(str.val, value_loop(b, pages_list.val, 0, <<>>))

Value_parse(b, value_idx, pages_list_idx) ==
    LET str_idx == parse_num(b, value_idx)
    IN IF ~IsOk(str_idx) THEN str_idx
       ELSE value_pages(b, pages_list_idx, first_string(b, str_idx.val, MsgMacroValue))

table_value_idx_packed(values_start, i) == values_start + (i * 4)

\* let value_idx = values_start + (i * 8);
table_value_idx(values_start, i) == values_start + (i * 8)

RECURSIVE table_loop(_, _, _, _, _)

table_push(b, values_start, i, count, values, value) ==
    IF ~IsOk(value) THEN value
    ELSE table_loop(b, values_start, i + 1, count, Append(values, value.val))

\* let pages_list_idx = value_idx + 4; Value::parse(bytes, value_idx, pages_list_idx)?
table_loop(b, values_start, i, count, values) ==
    IF i >= count THEN Ok(values)
    ELSE table_push(b, values_start, i, count, values,
                    Value_parse(b, table_value_idx(values_start, i),
                                table_value_idx(values_start, i) + 4))

table_check(count, values) ==
    IF ~IsOk(values) THEN values
    ELSE IF Len(values.val) # count THEN Err(MsgMacroValues)
    ELSE Ok([count |-> count, values |-> values.val])

Table_parse(b, start) ==
    LET count == parse_num(b, start)
    IN IF ~IsOk(count) THEN count
       ELSE IF count.val = 0 THEN Ok([count |-> 0, values |-> <<>>])
       ELSE table_check(count.val, table_loop(b, start + 4, 0, count.val, <<>>))

macros_count == 36

RECURSIVE macros_loop(_, _, _, _, _)

macros_push(b, macro_keys_start, i, count, tables, macro_table) ==
    IF ~IsOk(macro_table) THEN macro_table
    ELSE macros_loop(b, macro_keys_start, i + 1, count,
                     Append(tables, macro_table.val))

macros_loop(b, macro_keys_start, i, count, tables) ==
    IF i >= count THEN Ok(tables)
    ELSE LET macro_table_idx == parse_num(b, macro_keys_start + (i * 4))
         IN IF ~IsOk(macro_table_idx) THEN macro_table_idx
            ELSE macros_push(b, macro_keys_start, i, count, tables,
                             Table_parse(b, macro_table_idx.val))

macros_check_len_only(count, tables) ==
    IF ~IsOk(tables) THEN tables
    ELSE IF Len(tables.val) # count THEN Err(MsgMacros)
    ELSE Ok([count |-> count, tables |-> tables.val])

\* if count != 36 || tables.len() != 36 { return Err(..) }  Ok(Self { count, tables })
macros_check(count, tables) ==
    IF ~IsOk(tables) THEN tables
    ELSE IF count # macros_count \/ Len(tables.val) # macros_count THEN Err(MsgMacros)
    ELSE Ok([count |-> count, tables |-> tables.val])

Macros_parse(b, start) ==
    LET count == parse_num(b, start)
    IN IF ~IsOk(count) THEN count
       ELSE macros_check(count.val, macros_loop(b, start + 4, 0, count.val, <<>>))

(***************************************************************************)
(* main.rs: Database::parse                                                *)
(***************************************************************************)
DB_MAGIC_NUMBER == 981273819      \* 0x3a7d0cdb
DB_VERSION_NUMBER == 1

\* if pages.len() != total_pages { return Err(..) }  Ok(Self { total_pages, pages })
database_check(total_pages, pages) ==
    IF ~IsOk(pages) THEN pages
    ELSE IF Len(pages.val) # total_pages THEN Err(MsgPages)
    ELSE Ok([total_pages |-> total_pages, pages |-> pages.val])

database_pages(b) ==
    LET total_pages == parse_num(b, 16)
    IN IF ~IsOk(total_pages) THEN total_pages
       ELSE database_check(total_pages.val,
                           pages_loop("main.rs", b, 0, total_pages.val, <<>>))

version_after(b, db) ==
    IF ~IsOk(db) THEN db
    ELSE IF parse_num(b, 4).val # DB_VERSION_NUMBER THEN Err(MsgVersion)
    ELSE db

database_version_after_pages(b) == version_after(b, database_pages(b))

database_version(b) ==
    LET second_four == parse_num(b, 4)
    IN IF ~IsOk(second_four) THEN second_four
       ELSE IF second_four.val # DB_VERSION_NUMBER THEN Err(MsgVersion)
       ELSE database_pages(b)

database_magic_header_only(first_four, final_four) ==
    first_four # DB_MAGIC_NUMBER

database_magic(first_four, final_four) ==
    first_four # DB_MAGIC_NUMBER \/ final_four # DB_MAGIC_NUMBER

Database_parse(b) ==
    LET first_four == parse_num(b, 0)
    IN IF ~IsOk(first_four) THEN first_four
       ELSE LET final_four_idx == parse_num(b, 12)
            IN IF ~IsOk(final_four_idx) THEN final_four_idx
               ELSE LET final_four == parse_num(b, final_four_idx.val)
                    IN IF ~IsOk(final_four) THEN final_four
                       ELSE IF database_magic(first_four.val, final_four.val)
                            THEN Err(MsgMagic)
                       ELSE database_version(b)

(***************************************************************************)
(* main.rs: Database::search.  What the function prints is its outcome:    *)
(* the first page with a matching name, or the "No results" line.          *)
(***************************************************************************)
Found(page) == [found |-> TRUE, page |-> page]
NoResults == [found |-> FALSE, page |-> NoPage]

\* u8::to_ascii_lowercase
to_ascii_lowercase(byte) == IF byte >= 65 /\ byte <= 90 THEN byte + 32 ELSE byte

eq_exact(s, t) == s = t

\* str::eq_ignore_ascii_case
eq_ignore_ascii_case(s, t) ==
    /\ Len(s) = Len(t)
    /\ \A i \in 1..Len(s) : to_ascii_lowercase(s[i]) = to_ascii_lowercase(t[i])

RECURSIVE search_names(_, _, _)
\* for name in &page.names { if name.str.eq_ignore_ascii_case(query) { .. } }
search_names(names, n, query) ==
    IF n > Len(names) THEN FALSE
    ELSE IF eq_ignore_ascii_case(names[n].value, query) THEN TRUE
    ELSE search_names(names, n + 1, query)

RECURSIVE search_pages(_, _, _)
\* for page in &self.pages { .. println!("{}", &page); return; }
search_pages(pages, i, query) ==
    IF i > Len(pages) THEN NoResults
    ELSE IF search_names(pages[i].names, 1, query) THEN Found(pages[i])
    ELSE search_pages(pages, i + 1, query)

search(db, query) == search_pages(db.pages, 1, query)

(***************************************************************************)
(* Buffers of the primitive decoders: every byte string up to MaxLen over  *)
(* an alphabet holding NUL, source bytes inside (1, 31) and outside (32)   *)
(* the valid range, a letter, and a byte that is never valid UTF-8.        *)
(***************************************************************************)
MaxLen == 4

Alphabet == {0, 1, 31, 32, 65, 255}

RECURSIVE SeqsUpTo(_, _)
SeqsUpTo(S, n) ==
    IF n = 0 THEN {<<>>}
    ELSE LET shorter == SeqsUpTo(S, n - 1)
         IN shorter \cup {Append(s, x) : s \in {t \in shorter : Len(t) = n - 1}, x \in S}

SmallBufs == SeqsUpTo(Alphabet, MaxLen)

\* TLC's integers are 32 bits wide: a u32 whose first byte is >= 128 is not
\* representable, so parse_num is not applied at such an offset.
Representable(b, idx) == idx + 3 < Len(b) => At(b, idx) < 128

InitPrim ==
    /\ bytes \in SmallBufs
    /\ op = "none"
    /\ arg = 0
    /\ result = NoResult
    /\ ctl = Idle

DoParseNum ==
    \E idx \in 0..(Len(bytes) + 1) :
        /\ Fresh
        /\ Representable(bytes, idx)
        /\ op' = "parse_num"
        /\ arg' = idx
        /\ result' = parse_num(bytes, idx)
        /\ UNCHANGED <<bytes, ctl>>

DoParseList ==
    \E idx \in 0..(Len(bytes) + 1) :
        /\ Fresh
        /\ op' = "parse_list"
        /\ arg' = idx
        /\ result' = parse_list(bytes, idx)
        /\ UNCHANGED <<bytes, ctl>>

DoParseStringsList ==
    \E start \in 0..(Len(bytes) + 1) :
        /\ Fresh
        /\ op' = "parse_strings_list"
        /\ arg' = start
        /\ result' = parse_strings_list(bytes, start)
        /\ UNCHANGED <<bytes, ctl>>

DoParseNames ==
    \E start \in 0..(Len(bytes) + 1) :
        /\ Fresh
        /\ op' = "parse_names"
        /\ arg' = start
        /\ result' = parse_names(bytes, start)
        /\ UNCHANGED <<bytes, ctl>>

NextPrim == DoParseNum \/ DoParseList \/ DoParseStringsList \/ DoParseNames

SpecPrim == InitPrim /\ [][NextPrim]_vars


(***************************************************************************)
(* Buffers of the structured decoders.  A buffer is laid out as            *)
(*   header (20 bytes) | MaxPages page records | Pool | tail               *)
(* where the tail, when present, is                                        *)
(*   table T0 (count 0) | table T1 (count, MaxVals value headers) |        *)
(*   Macros collection (count, 37 table offsets) | trailer |               *)
(*   short pages list (one entry per record, 0) |                          *)
(*   long pages list (nentries entries, optional 0) at the buffer's end.   *)
(* Every field is a parameter drawn from a small set; the text lives in    *)
(* the fixed Pool.                                                         *)
(***************************************************************************)
MaxPages == 2
MaxVals == 2
MaxEntries == 22

Pool ==
    <<1, 65, 0, 31, 97, 0, 0,     \* +0  names (1,"A") (31,"a"); +6 a lone NUL
      32, 65, 0, 0,               \* +7  names with source byte 32
      65, 0, 97, 0, 0,            \* +11 strings "A" "a"
      1, 65, 0, 0,                \* +16 format tag 1, files "A"
      2, 0,                       \* +20 format tag 2, no files
      3, 97, 0, 0,                \* +22 format tag 3, files "a"
      255, 0, 0,                  \* +26 a string that is not UTF-8
      31, 65, 0, 1, 97, 0, 0,     \* +29 names (31,"A") (1,"a")
      1, 65, 0, 2, 66, 0, 0,      \* +36 names (1,"A") (2,"B")
      1, 98, 0, 2, 67, 0, 0>>     \* +43 names (1,"b") (2,"C")

PoolBase == table_idx + page_size * MaxPages
TailBase == PoolBase + Len(Pool)
T0Off == TailBase
T1Off == T0Off + 4
MacrosOff == T1Off + 4 + 8 * MaxVals
TrailerOff == MacrosOff + 4 + 4 * (macros_count + 1)
PLShortOff == TrailerOff + 4
PLLongOff == PLShortOff + 4 * (MaxPages + 1)
\* An offset past the end of every buffer.
OutOfBuf == PLLongOff + 4096

NamesChoices == {PoolBase, PoolBase + 6, PoolBase + 7, PoolBase + 29}
SectsChoices == {PoolBase + 11, PoolBase + 6}
ArchsChoices == {0, PoolBase + 6, PoolBase + 11}
DescChoices == {PoolBase + 11, PoolBase + 26}
FilesChoices == {PoolBase + 16, PoolBase + 20, PoolBase + 22}

DefaultRec ==
    [names |-> PoolBase, sects |-> PoolBase + 11, archs |-> 0,
     desc |-> PoolBase + 11, files |-> PoolBase + 16]

\* Every combination of the field choices.
RecsAll ==
    [names : NamesChoices, sects : SectsChoices, archs : ArchsChoices,
     desc : DescChoices, files : FilesChoices]

\* The records that differ from DefaultRec in at most one field.
Recs1 ==
    {r \in RecsAll :
        Cardinality({f \in {"names", "sects", "archs", "desc", "files"} :
                        r[f] # DefaultRec[f]}) <= 1}

DefaultVal == [str |-> PoolBase + 11, pl |-> PLShortOff]

ValsAll == [str : {PoolBase + 11, PoolBase + 26}, pl : {PLShortOff, PLLongOff}]

D ==
    [magic |-> DB_MAGIC_NUMBER, version |-> DB_VERSION_NUMBER,
     macros_ptr |-> MacrosOff, trailer_ptr |-> TrailerOff,
     npages |-> MaxPages, recs |-> [i \in 1..MaxPages |-> DefaultRec],
     tail |-> TRUE, tcount |-> 1, vals |-> [i \in 1..MaxVals |-> DefaultVal],
     mcount |-> macros_count, slot1 |-> T0Off, slot36 |-> T0Off,
     trailer_magic |-> DB_MAGIC_NUMBER, nentries |-> 1, term |-> TRUE]

RECURSIVE Flatten(_)
Flatten(ss) == IF ss = <<>> THEN <<>> ELSE Head(ss) \o Flatten(Tail(ss))

RecBytes(r) ==
    to_be_bytes(r.names) \o to_be_bytes(r.sects) \o to_be_bytes(r.archs)
        \o to_be_bytes(r.desc) \o to_be_bytes(r.files)

ValBytes(v) == to_be_bytes(v.str) \o to_be_bytes(v.pl)

RecordOff(k) == table_idx + page_size * k

HeaderBytes(p) ==
    to_be_bytes(p.magic) \o to_be_bytes(p.version) \o to_be_bytes(p.macros_ptr)
        \o to_be_bytes(p.trailer_ptr) \o to_be_bytes(p.npages)

MacrosBytes(p) ==
    to_be_bytes(p.mcount)
        \o Flatten([i \in 1..(macros_count + 1) |->
                       to_be_bytes(IF i = 1 THEN p.slot1
                                   ELSE IF i = macros_count THEN p.slot36
                                   ELSE T0Off)])

TailBytes(p) ==
    to_be_bytes(0)
        \o to_be_bytes(p.tcount) \o Flatten([i \in 1..MaxVals |-> ValBytes(p.vals[i])])
        \o MacrosBytes(p)
        \o to_be_bytes(p.trailer_magic)
        \o Flatten([i \in 1..MaxPages |-> to_be_bytes(RecordOff(i - 1))]) \o to_be_bytes(0)
        \o Flatten([i \in 1..p.nentries |-> to_be_bytes(RecordOff((i - 1) % MaxPages))])
        \o (IF p.term THEN to_be_bytes(0) ELSE <<>>)

Build(p) ==
    HeaderBytes(p) \o Flatten([i \in 1..MaxPages |-> RecBytes(p.recs[i])]) \o Pool
        \o (IF p.tail THEN TailBytes(p) ELSE <<>>)

\* Sequences of records: the first any combination, the second near the
\* default, the others the default.
RecSeqs ==
    {<<r1, r2>> \o [i \in 1..(MaxPages - 2) |-> DefaultRec] :
        r1 \in RecsAll, r2 \in Recs1}

\* Pages tables: the declared count runs past the records present.
PageFamily ==
    {[D EXCEPT !.tail = FALSE, !.npages = n, !.recs = rs] :
        n \in 0..(MaxPages + 1), rs \in RecSeqs}

\* Macro values: the first value of T1 walks the long pages list, whose entries
\* name the records in turn; the records' names vary.
NameRecSeqs == [1..MaxPages -> {[DefaultRec EXCEPT !.names = x] : x \in NamesChoices}]

ValueFamily ==
    {[D EXCEPT !.recs = rs, !.vals[1] = [str |-> s, pl |-> PLLongOff],
               !.nentries = n, !.term = t] :
        rs \in NameRecSeqs, s \in {PoolBase + 11, PoolBase + 26},
        n \in 0..MaxEntries, t \in BOOLEAN}

\* Macro tables: the declared count and every value header vary.
TableFamily ==
    {[D EXCEPT !.tcount = c, !.vals = vs] :
        c \in 0..(MaxVals + 1), vs \in [1..MaxVals -> ValsAll]}

\* Macros collections: the declared count, two of the table offsets, and whether
\* table T1 decodes.
MacrosFamily ==
    {[D EXCEPT !.mcount = m, !.slot1 = a, !.slot36 = z, !.vals[1].str = s] :
        m \in {0, macros_count - 1, macros_count, macros_count + 1},
        a \in {T0Off, T1Off}, z \in {T0Off, T1Off},
        s \in {PoolBase + 11, PoolBase + 26}}

\* Databases: the header fields, the trailer, the first record and the Macros
\* collection vary.
DbFamily ==
    {[D EXCEPT !.magic = mg, !.trailer_magic = tm, !.trailer_ptr = tp,
               !.version = v, !.npages = n, !.recs[1] = r,
               !.mcount = mc, !.macros_ptr = mp] :
        mg \in {DB_MAGIC_NUMBER, DB_MAGIC_NUMBER - 1},
        tm \in {DB_MAGIC_NUMBER, DB_MAGIC_NUMBER + 1},
        tp \in {TrailerOff, OutOfBuf},
        v \in {DB_VERSION_NUMBER, DB_VERSION_NUMBER + 1},
        n \in 0..(MaxPages + 1), r \in Recs1,
        mc \in {macros_count - 1, macros_count},
        mp \in {MacrosOff, OutOfBuf}}

\* Databases to search: valid ones whose records' names vary.
SearchNames == {PoolBase, PoolBase + 6, PoolBase + 36, PoolBase + 43}

SearchFamily ==
    {[D EXCEPT !.recs = rs] :
        rs \in [1..MaxPages -> {[DefaultRec EXCEPT !.names = x] : x \in SearchNames}]}

\* The queries: "a", "B", "c", "d", "AB".
Queries == <<(<<97>>), (<<66>>), (<<99>>), (<<100>>), (<<65, 66>>)>>

\* Macro values whose pages list names more records than the Pages table
\* declares.
PartialPagesFamily ==
    {[D EXCEPT !.npages = n, !.recs = rs, !.vals[1].pl = PLLongOff, !.nentries = e] :
        n \in 0..(MaxPages - 1), rs \in NameRecSeqs, e \in {1, MaxPages}}

Families ==
    PageFamily \cup ValueFamily \cup TableFamily \cup MacrosFamily \cup DbFamily
        \cup SearchFamily \cup PartialPagesFamily

Init ==
    /\ \E p \in Families : bytes = Build(p)
    /\ op = "none"
    /\ arg = 0
    /\ result = NoResult
    /\ ctl = Idle

DoPageParse ==
    \E k \in 0..MaxPages :
        /\ Fresh
        /\ op' = "Page_parse"
        /\ arg' = RecordOff(k)
        /\ result' = Page_parse(bytes, RecordOff(k))
        /\ UNCHANGED <<bytes, ctl>>

DoPagesParse ==
    /\ Fresh
    /\ op' = "Pages_parse"
    /\ arg' = 0
    /\ result' = Pages_parse(bytes)
    /\ UNCHANGED <<bytes, ctl>>

\* Value::parse as Table::parse calls it: pages_list_idx = value_idx + 4.
DoValueParse ==
    \E i \in 0..(MaxVals - 1) :
        LET value_idx == T1Off + 4 + (i * 8)
        IN /\ Fresh
           /\ op' = "Value_parse"
           /\ arg' = value_idx
           /\ result' = Value_parse(bytes, value_idx, value_idx + 4)
           /\ UNCHANGED <<bytes, ctl>>

\* A table at T0, at T1, or in the last four bytes of the buffer.
DoTableParse ==
    \E start \in {T0Off, T1Off, Len(bytes) - 4} :
        /\ Fresh
        /\ op' = "Table_parse"
        /\ arg' = start
        /\ result' = Table_parse(bytes, start)
        /\ UNCHANGED <<bytes, ctl>>

DoMacrosParse ==
    /\ Fresh
    /\ op' = "Macros_parse"
    /\ arg' = MacrosOff
    /\ result' = Macros_parse(bytes, MacrosOff)
    /\ UNCHANGED <<bytes, ctl>>

DoDatabaseParse ==
    /\ Fresh
    /\ op' = "Database_parse"
    /\ arg' = 0
    /\ result' = Database_parse(bytes)
    /\ UNCHANGED <<bytes, ctl>>

\* main: let db = Database::parse(&bytes)?; .. db.search(query);
\* `arg` is the position of the query in Queries.
DoSearch ==
    \E q \in 1..Len(Queries) :
        /\ op = "Database_parse"
        /\ IsOk(result)
        /\ op' = "search"
        /\ arg' = q
        /\ result' = Ok(search(result.val, Queries[q]))
        /\ UNCHANGED <<bytes, ctl>>

Next ==
    \/ DoPageParse
    \/ DoPagesParse
    \/ DoValueParse
    \/ DoTableParse
    \/ DoMacrosParse
    \/ DoDatabaseParse
    \/ DoSearch

Spec == Init /\ [][Next]_vars


(***************************************************************************)
(* The decoders one loop iteration at a time.  A step is one pass through  *)
(* the body of the loop that is running: Macros::parse's `for i`,          *)
(* Table::parse's `for i` (j here), Value::parse's `for p`, Pages::parse's *)
(* `for page_idx` with the fields of Page::parse, and the fragment loop of *)
(* parse_list / Name::parse_names.  The values decoded are not kept, only  *)
(* the control state and the outcome: `result` is set when the decoder     *)
(* returns or aborts.                                                      *)
(***************************************************************************)
Done == ctl.pc = "done"

\* return / `?` / abort of the outermost decoder with outcome r.
Finish(r) ==
    /\ ctl' = [ctl EXCEPT !.pc = "done"]
    /\ result' = IF IsOk(r) THEN Ok(<<>>) ELSE r

Goto(c) == ctl' = c /\ UNCHANGED result

\* bytes[start..].split_inclusive(..): the slice start is checked, then the
\* fragment loop runs from `start` and goes on at `ret` when it ends.
EnterList(kind, start, ret) ==
    IF start > Len(bytes) THEN Finish(Panic(MsgSliceStart))
    ELSE Goto([ctl EXCEPT !.pc = "list_loop", !.kind = kind, !.pos = start,
                          !.ret = ret])

\* The list is complete: Value::parse pushes the names and goes to its next
\* entry, Page::parse goes on with its next field.
LeaveList ==
    IF ctl.ret = "value_loop"
    THEN Goto([ctl EXCEPT !.pc = "value_loop", !.p = @ + 1])
    ELSE Goto([ctl EXCEPT !.pc = ctl.ret])

after_item_stuck(b, pos) == pos

\* The iterator's position after the fragment that begins at pos.
after_item(b, pos) == frag_end(b, pos)

\* The outcome of the arm `len =>` for one fragment: Ok, or the `?` failure.
item_outcome(kind, item_bytes) ==
    IF kind = "names"
    THEN IF ~source_in_range(item_bytes[1]) THEN Err(MsgNameSource)
         ELSE IF Len(item_bytes) = 1 THEN Err(MsgNamesList)
         ELSE IF ~from_utf8_ok(SubSeq(item_bytes, 2, Len(item_bytes) - 1), 1)
              THEN Err(MsgUtf8Error)
         ELSE Ok(<<>>)
    ELSE IF ~from_utf8_ok(SubSeq(item_bytes, 1, Len(item_bytes) - 1), 1)
         THEN Err(MsgListUtf8)
    ELSE Ok(<<>>)

\* One fragment of parse_list / Name::parse_names.
ListStep ==
    /\ ctl.pc = "list_loop"
    /\ UNCHANGED <<bytes, op, arg>>
    /\ IF ctl.pos >= Len(bytes) THEN LeaveList
       ELSE LET item_bytes == Slice(bytes, ctl.pos, frag_end(bytes, ctl.pos))
            IN IF is_terminator(item_bytes) THEN LeaveList
               ELSE IF ~IsOk(item_outcome(ctl.kind, item_bytes))
                    THEN Finish(item_outcome(ctl.kind, item_bytes))
               ELSE Goto([ctl EXCEPT !.pos = after_item(bytes, ctl.pos)])

\* One entry of the pages list in Value::parse.
ValueStep ==
    /\ ctl.pc = "value_loop"
    /\ UNCHANGED <<bytes, op, arg>>
    /\ IF ctl.p > last_page
       THEN Goto([ctl EXCEPT !.pc = "table_loop", !.j = @ + 1])
       ELSE LET page_idx == parse_num(bytes, ctl.pages_list + (ctl.p * 4))
            IN IF ~IsOk(page_idx) THEN Finish(page_idx)
               ELSE IF page_idx.val = 0
                    THEN Goto([ctl EXCEPT !.pc = "table_loop", !.j = @ + 1])
               ELSE LET names_list == parse_num(bytes, names_list_idx(page_idx.val))
                    IN IF ~IsOk(names_list) THEN Finish(names_list)
                       ELSE EnterList("names", names_list.val, "value_loop")

\* One value of Table::parse: the head of Value::parse up to its loop.
TableStep ==
    /\ ctl.pc = "table_loop"
    /\ UNCHANGED <<bytes, op, arg>>
    /\ IF ctl.j >= ctl.tcount
       THEN Goto([ctl EXCEPT !.pc = "macros_loop", !.i = @ + 1])
       ELSE LET value_idx == table_value_idx(ctl.tstart + 4, ctl.j)
                str_idx == parse_num(bytes, value_idx)
                pages_list == parse_num(bytes, value_idx + 4)
            IN IF ~IsOk(str_idx) THEN Finish(str_idx)
               ELSE IF ~IsOk(first_string(bytes, str_idx.val, MsgMacroValue))
                    THEN Finish(first_string(bytes, str_idx.val, MsgMacroValue))
               ELSE IF ~IsOk(pages_list) THEN Finish(pages_list)
               ELSE Goto([ctl EXCEPT !.pc = "value_loop",
                                     !.pages_list = pages_list.val, !.p = 0])

\* One table of Macros::parse: the head of Table::parse up to its loop; after
\* the last table, the count check.
MacrosStep ==
    /\ ctl.pc = "macros_loop"
    /\ UNCHANGED <<bytes, op, arg>>
    /\ IF ctl.i >= ctl.count
       THEN Finish(IF ctl.count # macros_count \/ ctl.i # macros_count
                   THEN Err(MsgMacros) ELSE Ok(<<>>))
       ELSE LET macro_table_idx == parse_num(bytes, arg + 4 + (ctl.i * 4))
            IN IF ~IsOk(macro_table_idx) THEN Finish(macro_table_idx)
               ELSE LET count == parse_num(bytes, macro_table_idx.val)
                    IN IF ~IsOk(count) THEN Finish(count)
                       ELSE IF count.val = 0 THEN Goto([ctl EXCEPT !.i = @ + 1])
                       ELSE Goto([ctl EXCEPT !.pc = "table_loop",
                                             !.tstart = macro_table_idx.val,
                                             !.tcount = count.val, !.j = 0])

\* Macros::parse(bytes, start): the count is read and the loop begins.
StartMacros ==
    /\ Fresh
    /\ op' = "Macros_steps"
    /\ arg' = MacrosOff
    /\ UNCHANGED bytes
    /\ LET count == parse_num(bytes, MacrosOff)
       IN IF ~IsOk(count) THEN Finish(count)
          ELSE Goto([ctl EXCEPT !.pc = "macros_loop", !.count = count.val, !.i = 0])

\* The fields of Page::parse after the names, for the record at page_idx.
PageFieldStep ==
    /\ ctl.pc \in {"page_sects", "page_archs", "page_desc", "page_files", "page_format"}
    /\ UNCHANGED <<bytes, op, arg>>
    /\ LET o == page_offsets(bytes, table_idx + page_size * ctl.page_idx)
       IN IF ctl.pc = "page_sects" THEN EnterList("list", o.sects, "page_archs")
          ELSE IF ctl.pc = "page_archs"
               THEN IF o.archs # 0 THEN EnterList("list", o.archs, "page_desc")
                    ELSE Goto([ctl EXCEPT !.pc = "page_desc"])
          ELSE IF ctl.pc = "page_desc"
               THEN IF ~IsOk(first_string(bytes, o.desc, MsgDesc))
                    THEN Finish(first_string(bytes, o.desc, MsgDesc))
                    ELSE Goto([ctl EXCEPT !.pc = "page_files"])
          ELSE IF ctl.pc = "page_files"
               THEN EnterList("list", o.files + 1, "page_format")
          ELSE IF ~IsOk(index(bytes, o.files)) THEN Finish(index(bytes, o.files))
          ELSE IF ~IsOk(PageFormat_from(At(bytes, o.files)))
               THEN Finish(PageFormat_from(At(bytes, o.files)))
          ELSE Goto([ctl EXCEPT !.pc = "pages_loop", !.page_idx = @ + 1])

\* One record of Pages::parse: the head of Page::parse up to its names; after
\* the last record, the count check.
PagesStep ==
    /\ ctl.pc = "pages_loop"
    /\ UNCHANGED <<bytes, op, arg>>
    /\ IF ctl.page_idx >= ctl.count
       THEN Finish(IF ctl.page_idx # ctl.count THEN Err(MsgPages) ELSE Ok(<<>>))
       ELSE IF ~(table_idx + page_size * ctl.page_idx + 19 < Len(bytes))
            THEN Finish(Panic(MsgAssertPage))
       ELSE EnterList("names",
                      page_offsets(bytes, table_idx + page_size * ctl.page_idx).names,
                      "page_sects")

\* Pages::parse(bytes): the count is read and the loop begins.
StartPages ==
    /\ Fresh
    /\ op' = "Pages_steps"
    /\ arg' = 0
    /\ UNCHANGED bytes
    /\ LET count == parse_num(bytes, 16)
       IN IF ~IsOk(count) THEN Finish(count)
          ELSE Goto([ctl EXCEPT !.pc = "pages_loop", !.count = count.val,
                                !.page_idx = 0])

\* A declared count far larger than any buffer.
HugeCount == 256 * 65536

\* Macros sections whose offsets point at the tables, backwards at the header
\* and the records, at the Macros collection itself and at the value that
\* holds them.
StepMacrosFamily ==
    {[D EXCEPT !.mcount = m, !.slot1 = a, !.tcount = c,
               !.vals[1].pl = pl, !.nentries = n, !.recs[1].names = nm] :
        m \in {0, macros_count, macros_count + 1, HugeCount},
        a \in {T0Off, T1Off, MacrosOff},
        c \in {1, MaxVals, HugeCount},
        pl \in {PLShortOff, PLLongOff, T1Off + 4, MacrosOff + 4},
        n \in {0, MaxEntries},
        nm \in {PoolBase, RecordOff(0)}}

\* Pages tables whose record offsets point into the pool, backwards at the
\* header and at the record itself.
StepPagesFamily ==
    {[D EXCEPT !.npages = n, !.recs[1] = r] :
        n \in {0, MaxPages, MaxPages + 1, HugeCount},
        r \in [names : {PoolBase, RecordOff(0), 0},
               sects : {PoolBase + 11, RecordOff(0)},
               archs : {0, PoolBase + 11, RecordOff(0) + 8},
               desc : {PoolBase + 11, RecordOff(0) + 12},
               files : {PoolBase + 16, RecordOff(0) + 16, OutOfBuf}]}

InitStep ==
    /\ \E p \in StepMacrosFamily \cup StepPagesFamily : bytes = Build(p)
    /\ op = "none"
    /\ arg = 0
    /\ result = NoResult
    /\ ctl = Idle

NextStep ==
    \/ StartMacros
    \/ MacrosStep
    \/ TableStep
    \/ ValueStep
    \/ StartPages
    \/ PagesStep
    \/ PageFieldStep
    \/ ListStep

\* The decoder is a sequential program: while it has not returned, it runs.
SpecStep == InitStep /\ [][NextStep]_vars /\ WF_vars(NextStep)


(***************************************************************************)
(* Statements.  The buffer fields they name are read from `bytes` directly. *)
(***************************************************************************)
U32At(i) == from_be_bytes(bytes, i)
Readable(i) == i + 3 < Len(bytes)

\* The k-th smallest element of a set of offsets.
NthOf(S, k) == CHOOSE i \in S : Cardinality({j \in S : j < i}) = k - 1

\* An empty fragment of the list at `start`: a NUL where an item would begin.
EmptyFragmentAt(b, start, j) == At(b, j) = 0 /\ (j = start \/ At(b, j - 1) = 0)

\* Where the fragments of the list at `start` begin, up to and including the
\* first empty fragment.
ItemStarts(b, start) ==
    {i \in start..(Len(b) - 1) :
        /\ i = start \/ At(b, i - 1) = 0
        /\ \A j \in start..(i - 1) : ~EmptyFragmentAt(b, start, j)}

\* The items proper: the fragments before the first empty one.
Items(b, start) == {i \in ItemStarts(b, start) : At(b, i) # 0}

\* The list at `start` has its terminator, at TermPos.
Terminated(b, start) == \E j \in start..(Len(b) - 1) : EmptyFragmentAt(b, start, j)
TermPos(b, start) ==
    CHOOSE j \in start..(Len(b) - 1) :
        /\ EmptyFragmentAt(b, start, j)
        /\ \A k \in start..(j - 1) : ~EmptyFragmentAt(b, start, k)

\* C1: every read that would exceed the buffer makes the decode return an
\* (OutOfBounds) error value: parse_num at an offset with offset + 3 >= length,
\* and a list or name list whose start lies past the end, return Err; no decoder
\* call aborts.
C1_OutOfBoundsIsReturned ==
    /\ (op = "parse_num" /\ arg + 3 >= Len(bytes)) => IsErr(result)
    /\ (op \in {"parse_list", "parse_strings_list", "parse_names"} /\ arg > Len(bytes))
           => IsErr(result)
    /\ ~IsPanic(result)

HeaderMagic == U32At(0)
TrailerReadable == Readable(12) /\ Readable(U32At(12))
TrailerMagic == U32At(U32At(12))
Version == U32At(4)
MagicsValid == HeaderMagic = 981273819 /\ TrailerMagic = 981273819

\* C2: Database parse requires the u32 at offset 0 and the u32 at the offset
\* stored at offset 12 both to equal 0x3a7d0cdb; if either differs the parse
\* fails with "Invalid file format." whatever the other fields hold.
C2_BothMagicsRequired ==
    (op = "Database_parse" /\ TrailerReadable) =>
        /\ ~MagicsValid => result = Err(MsgMagic)
        /\ IsOk(result) => MagicsValid

\* C2 witness: header magic right, trailer magic wrong, version, pages and
\* macros all well-formed, and the parse reports the magic error.
C2_Witness ==
    /\ op = "Database_parse"
    /\ TrailerReadable
    /\ HeaderMagic = 981273819
    /\ TrailerMagic # 981273819
    /\ Version = 1
    /\ IsOk(Pages_parse(bytes))
    /\ IsOk(Macros_parse(bytes, U32At(8)))
    /\ result = Err(MsgMagic)

\* C3: with both magics valid a version other than 1 fails with "Invalid version
\* number." before any page is decoded, and with a wrong magic the magic error
\* wins over the version error.
C3_VersionAfterMagicBeforePages ==
    (op = "Database_parse" /\ TrailerReadable) =>
        /\ (MagicsValid /\ Version # 1) => result = Err(MsgVersion)
        /\ (~MagicsValid /\ Version # 1) => result = Err(MsgMagic)
        /\ (IsErr(result) /\ result.msg = MsgVersion) => (MagicsValid /\ Version # 1)

\* C3 witness: valid magics, wrong version, a pages table that does not decode,
\* and the parse reports the version error.
C3_Witness ==
    /\ op = "Database_parse"
    /\ TrailerReadable
    /\ MagicsValid
    /\ Version # 1
    /\ ~IsOk(Pages_parse(bytes))
    /\ result = Err(MsgVersion)

\* C4: a successful Database parse has decoded the Macros collection reached
\* through the pointer at offset 8 (36 tables); a buffer whose Macros collection
\* is malformed never yields a Database.
C4_DatabaseDecodesMacros ==
    (op = "Database_parse" /\ IsOk(result)) =>
        LET macros == Macros_parse(bytes, U32At(8))
        IN IsOk(macros) /\ macros.val.count = 36

\* The Macros collection at `start` declares `count` tables and each of them
\* decodes.
DeclaredTablesDecode(start, count) ==
    \A i \in 0..(count - 1) :
        /\ Readable(start + 4 + 4 * i)
        /\ IsOk(Table_parse(bytes, U32At(start + 4 + 4 * i)))

\* C5: every decoded Pages has count = len(table) (the declared count at offset
\* 16), every decoded Macros has count = 36 = len(tables), and a Macros
\* collection that declares a count other than 36 fails with "Macros parsing
\* failed." even when every declared table decodes.
C5_CountsMatch ==
    /\ (op = "Pages_parse" /\ IsOk(result)) =>
           /\ result.val.count = Len(result.val.table)
           /\ result.val.count = U32At(16)
    /\ (op = "Database_parse" /\ IsOk(result)) =>
           /\ result.val.total_pages = Len(result.val.pages)
           /\ result.val.total_pages = U32At(16)
    /\ (op = "Macros_parse" /\ IsOk(result)) =>
           /\ result.val.count = 36
           /\ Len(result.val.tables) = 36
    /\ (op = "Macros_parse" /\ Readable(arg) /\ U32At(arg) # 36
            /\ DeclaredTablesDecode(arg, U32At(arg)))
           => result = Err(MsgMacros)

\* C5 witness: a Macros collection declaring 35 tables, all 35 decoding, and
\* the parse failing on the count.
C5_Witness ==
    /\ op = "Macros_parse"
    /\ Readable(arg)
    /\ U32At(arg) = 35
    /\ DeclaredTablesDecode(arg, 35)
    /\ \E i \in 0..34 : Table_parse(bytes, U32At(arg + 4 + 4 * i)).val.count > 0
    /\ result = Err(MsgMacros)

\* C6: a decoded page has format MdocMan when the byte at offset[4] is 1 and
\* Preformatted when it is 2, its files are the list at offset[4] + 1, and for
\* any other tag byte the page decode returns an error value.
C6_FormatTagDecoded ==
    (op = "Page_parse" /\ arg + 19 < Len(bytes) /\ U32At(arg + 16) < Len(bytes)) =>
        LET files_start == U32At(arg + 16)
            tag == At(bytes, files_start)
        IN /\ IsOk(result) =>
                  /\ tag = 1 => result.val.format = "MdocMan"
                  /\ tag = 2 => result.val.format = "Preformatted"
                  /\ result.val.files = parse_list(bytes, files_start + 1).val
           /\ tag \notin {1, 2} => IsErr(result)

\* C7: for every decoded page, archs is absent iff the third offset of its
\* record is 0; a non-zero offset pointing at a lone NUL gives a present, empty
\* list.
C7_ArchsAbsentIffZero ==
    (op = "Page_parse" /\ IsOk(result)) =>
        LET archs_start == U32At(arg + 8)
        IN /\ (result.val.archs.some = FALSE) <=> (archs_start = 0)
           /\ (archs_start # 0 /\ At(bytes, archs_start) = 0)
                  => result.val.archs = [some |-> TRUE, list |-> <<>>]
           /\ archs_start # 0
                  => result.val.archs.list = parse_list(bytes, archs_start).val

\* C7 witness: a decoded page whose architecture offset is non-zero and points
\* at a lone NUL: archs is present and empty.
C7_Witness ==
    /\ op = "Page_parse"
    /\ IsOk(result)
    /\ U32At(arg + 8) # 0
    /\ At(bytes, U32At(arg + 8)) = 0
    /\ result.val.archs.some
    /\ result.val.archs.list = <<>>

\* C8 as stated: in name-list decoding every item whose leading byte is 0 or
\* >= 32 makes the decode fail.
C8_LeadingZeroOrHighFails ==
    (op = "parse_names" /\ arg <= Len(bytes)) =>
        \A i \in ItemStarts(bytes, arg) :
            (At(bytes, i) = 0 \/ At(bytes, i) >= 32) => IsErr(result)

\* C8 amended: an item whose leading byte is >= 32 makes the decode fail, and
\* "Name source parsing failed." is returned for no other reason; a leading 0 is
\* the lone-NUL terminator and ends the list with success (an empty list when it
\* is the first byte); on success there is one Name per item, its source the
\* item's leading byte, in 1..=31, and, for an item that has its NUL, its text
\* the bytes after the source byte up to that NUL.
C8_SourceByteRange ==
    (op = "parse_names" /\ arg <= Len(bytes)) =>
        LET items == Items(bytes, arg)
        IN /\ (\E i \in items : At(bytes, i) >= 32) => IsErr(result)
           /\ (IsErr(result) /\ result.msg = MsgNameSource)
                  => \E i \in items : At(bytes, i) >= 32
           /\ (arg < Len(bytes) /\ At(bytes, arg) = 0) => result = Ok(<<>>)
           /\ IsOk(result) =>
                  /\ Len(result.val) = Cardinality(items)
                  /\ \A k \in 1..Len(result.val) :
                         LET i == NthOf(items, k)
                             nul == find_nul(bytes, i)
                         IN /\ At(bytes, i) \in 1..31
                            /\ result.val[k].source = At(bytes, i)
                            /\ nul < Len(bytes)
                                   => result.val[k].value = Slice(bytes, i + 1, nul)

\* C8 witness: a name list whose item has source byte 31 and text "A" decodes
\* to that one Name.
C8_Witness ==
    /\ op = "parse_names"
    /\ IsOk(result)
    /\ Len(result.val) >= 1
    /\ result.val[1] = [value |-> <<65>>, source |-> 31]

PagesList == U32At(arg + 4)
EntryAt(p) == U32At(PagesList + 4 * p)
EntryReadable(p) == Readable(PagesList + 4 * p)

\* The first 21 entries of the pages list are there, non-zero, and each
\* resolves to a name list.
First21Resolve ==
    \A p \in 0..20 :
        /\ EntryReadable(p)
        /\ EntryAt(p) # 0
        /\ Readable(EntryAt(p))
        /\ IsOk(parse_names(bytes, U32At(EntryAt(p))))

\* C10: the pages-list walk of a decoded macro value reads consecutive u32
\* entries: the groups are those of the non-zero entries before the first 0, in
\* order, one each; there are at most 21; and when the first 21 entries are
\* non-zero the walk succeeds with exactly 21 groups whether or not a 22nd
\* entry can be read.
C10_PagesListWalk ==
    op = "Value_parse" =>
        /\ IsOk(result) =>
               LET n == Len(result.val.page_names)
               IN /\ n <= 21
                  /\ \A p \in 0..(n - 1) :
                         /\ EntryReadable(p)
                         /\ EntryAt(p) # 0
                         /\ result.val.page_names[p + 1]
                                = parse_names(bytes, U32At(EntryAt(p))).val
                  /\ n < 21 => (EntryReadable(n) /\ EntryAt(n) = 0)
        /\ (Readable(arg + 4) /\ IsOk(first_string(bytes, U32At(arg), MsgMacroValue))
                /\ First21Resolve)
               => (IsOk(result) /\ Len(result.val.page_names) = 21)

\* C10 witness: a decoded value with 21 groups whose pages list ends with the
\* buffer right after the 21st entry.
C10_Witness ==
    /\ op = "Value_parse"
    /\ IsOk(result)
    /\ Len(result.val.page_names) = 21
    /\ PagesList + 84 = Len(bytes)
    /\ result.val.page_names[1] # result.val.page_names[2]

\* The database that was searched, the query, and where the query matches.
SearchedDb == Database_parse(bytes).val
Query == Queries[arg]
Fold(s) == [i \in 1..Len(s) |-> to_ascii_lowercase(s[i])]
NameMatches(name) == Fold(name.value) = Fold(Query)
PageMatches(page) == \E n \in 1..Len(page.names) : NameMatches(page.names[n])
MatchingPages(db) == {i \in 1..Len(db.pages) : PageMatches(db.pages[i])}

\* C11: exact-name search compares the query with every page name ignoring
\* ASCII case; it reports the first page, in table order, one of whose names
\* matches, and only that page; when no name of any page matches it yields the
\* no-result outcome.
C11_SearchFirstMatch ==
    op = "search" =>
        LET db == SearchedDb
            matching == MatchingPages(db)
        IN /\ IsOk(result)
           /\ matching = {} => result.val = NoResults
           /\ matching # {} =>
                  \E i \in matching :
                      /\ \A j \in matching : i <= j
                      /\ result.val = Found(db.pages[i])

\* C11 witness: the query "B" matches the second name of the first page and,
\* in another case, the first name of the second page; the first page is
\* reported.
C11_Witness ==
    /\ op = "search"
    /\ Query = <<66>>
    /\ LET db == SearchedDb
       IN /\ Len(db.pages) >= 2
          /\ Len(db.pages[1].names) = 2
          /\ Len(db.pages[2].names) = 2
          /\ ~NameMatches(db.pages[1].names[1])
          /\ NameMatches(db.pages[1].names[2])
          /\ NameMatches(db.pages[2].names[1])
          /\ db.pages[2].names[1].value = <<98>>
          /\ db.pages[1] # db.pages[2]
          /\ result.val = Found(db.pages[1])

\* C11 second case: a search with no matching name.
C11_NoMatchReached ==
    /\ op = "search"
    /\ result.val = NoResults
    /\ Len(SearchedDb.pages) >= 2

\* The declared count of the table at `arg`, and its i-th value header.
TableCount == U32At(arg)
HeaderValue(i) == Value_parse(bytes, arg + 4 + 8 * i, arg + 8 + 8 * i)

\* C12: macro-table decoding with declared count n returns exactly n values in
\* order, the i-th decoded from the 8-byte header at start + 4 + 8*i; it
\* succeeds whenever those n values decode; and a declared count of 0 gives the
\* empty table, whatever follows the count field, even the end of the buffer.
C12_TableValues ==
    op = "Table_parse" =>
        /\ IsOk(result) =>
               /\ result.val.count = TableCount
               /\ Len(result.val.values) = TableCount
               /\ \A i \in 0..(TableCount - 1) :
                      result.val.values[i + 1] = HeaderValue(i).val
        /\ (Readable(arg) /\ TableCount <= MaxVals + 1
                /\ \A i \in 0..(TableCount - 1) : IsOk(HeaderValue(i)))
               => IsOk(result)
        /\ (Readable(arg) /\ TableCount = 0)
               => result = Ok([count |-> 0, values |-> <<>>])

\* C12 witness: a table of two values that differ, decoded in header order.
C12_Witness ==
    /\ op = "Table_parse"
    /\ IsOk(result)
    /\ TableCount = 2
    /\ Len(result.val.values) = 2
    /\ result.val.values[1] = HeaderValue(0).val
    /\ result.val.values[2] = HeaderValue(1).val
    /\ result.val.values[1] # result.val.values[2]

\* C12 second case: a table of count 0 whose count field is the last four
\* bytes of the buffer.
C12_ZeroCountAtEndReached ==
    /\ op = "Table_parse"
    /\ arg + 4 = Len(bytes)
    /\ result = Ok([count |-> 0, values |-> <<>>])

\* The text of the k-th decoded item, and where the text of an item begins:
\* after the source byte in a name list.
ItemText(k) == IF op = "parse_names" THEN result.val[k].value ELSE result.val[k]
TextStart(i) == IF op = "parse_names" THEN i + 1 ELSE i

\* C13: every string returned by the string-list and name-list decoders is
\* exactly the bytes from the item's start up to the next NUL of the buffer:
\* when bytes remain at the offset, a success is returned only for a list that
\* has its terminator inside the buffer, and no returned item is one that ran
\* into the buffer's end.
C13_ItemsRunToTheirNul ==
    (op \in {"parse_list", "parse_strings_list", "parse_names"} /\ IsOk(result)
         /\ arg < Len(bytes)) =>
        LET items == Items(bytes, arg)
        IN /\ Terminated(bytes, arg)
           /\ Len(result.val) = Cardinality(items)
           /\ \A k \in 1..Len(result.val) :
                  LET i == NthOf(items, k)
                      nul == find_nul(bytes, i)
                  IN /\ nul < Len(bytes)
                     /\ ItemText(k) = Slice(bytes, TextStart(i), nul)

\* C13, the failing case: the buffer "A" NUL "A" decodes with success to the
\* strings "A" and "", the second having lost its only byte.
C13_TruncatedItemReached ==
    /\ op = "parse_list"
    /\ bytes = <<65, 0, 65>>
    /\ arg = 0
    /\ result = Ok(<<(<<65>>), (<<>>)>>)

\* The outcome of the decoder that was run in steps, computed in one piece.
WholeOutcome ==
    IF op = "Macros_steps" THEN Macros_parse(bytes, arg) ELSE Pages_parse(bytes)

\* The decoder run in steps ends as the decoder computed in one piece does.
StepsAgree ==
    Done => (result.tag = WholeOutcome.tag /\ result.msg = WholeOutcome.msg)

\* Every running loop is inside its bound: the counted loops have not passed
\* their declared count and every header they have read lies in the buffer,
\* the pages-list walk has not passed its 21 entries, and the fragment loop
\* has not passed the end of the buffer.
LoopsBounded ==
    /\ ctl.pc = "macros_loop" =>
           /\ ctl.i <= ctl.count
           /\ ctl.i > 0 => arg + 4 * ctl.i + 3 < Len(bytes)
    /\ ctl.pc = "table_loop" =>
           /\ ctl.j <= ctl.tcount
           /\ ctl.j > 0 => ctl.tstart + 8 * ctl.j + 3 < Len(bytes)
    /\ ctl.pc = "value_loop" => ctl.p <= 21
    /\ ctl.pc = "pages_loop" =>
           /\ ctl.page_idx <= ctl.count
           /\ ctl.page_idx > 0 => 20 * ctl.page_idx + 19 < Len(bytes)
    /\ ctl.pc = "list_loop" => ctl.pos <= Len(bytes)

\* C14: decoding terminates for every buffer, whatever its offsets point at:
\* every loop stays inside its bound (a declared count, the 21 entries of a
\* pages list, the remaining buffer), and the decode always reaches a result
\* or a failure.
C14_DecodingTerminates ==
    /\ []LoopsBounded
    /\ <>(Done /\ result.tag \in {"Ok", "Err", "Panic"})

\* C14 witness: a Macros collection whose first table offset points at the
\* collection itself has been decoded to its end, values of that table included.
C14_Witness ==
    /\ Done
    /\ op = "Macros_steps"
    /\ U32At(arg + 4) = arg
    /\ ctl.j > 0
    /\ result.tag \in {"Ok", "Err", "Panic"}

\* The Pages table of the buffer.
PagesOutcome == Pages_parse(bytes)

\* C15: when the Pages table and a macro value of the same buffer both decode,
\* every group of the value whose pages-list entry is the offset 20 + 20*k of
\* a record k of the Pages table equals the names of page k, item for item in
\* text and source byte.
C15_GroupsAreTheNamesOfThePage ==
    (op = "Value_parse" /\ IsOk(result)) =>
        LET pages == PagesOutcome
        IN IsOk(pages) =>
               \A p \in 0..(Len(result.val.page_names) - 1) :
                   \A k \in 0..(pages.val.count - 1) :
                       EntryAt(p) = 20 + 20 * k
                           => result.val.page_names[p + 1] = pages.val.table[k + 1].names

\* C15 witness: the Pages table declares one page; the value's first entry is
\* that record and its group is the page's two names; the second entry is the
\* offset of bytes that are no record of the table, and a different group is
\* decoded from them all the same.
C15_Witness ==
    /\ op = "Value_parse"
    /\ IsOk(result)
    /\ Len(result.val.page_names) = 2
    /\ EntryAt(0) = 20
    /\ EntryAt(1) = 40
    /\ result.val.page_names[2] # result.val.page_names[1]
    /\ LET pages == PagesOutcome
       IN /\ IsOk(pages)
          /\ pages.val.count = 1
          /\ Len(pages.val.table[1].names) = 2
          /\ result.val.page_names[1] = pages.val.table[1].names

====
